---- MODULE Spec2Model ----
(***************************************************************************)
(* Model of the workflow-orchestrator tool server (server.py) and of the   *)
(* agent's end-of-run write (run_agent.py).                                *)
(*                                                                         *)
(* JSON objects (Python dicts) are functions from key strings to values;   *)
(* JSON null / Python None is the reserved value None.  Formatted message  *)
(* strings are sequences of their pieces (literal text and interpolated    *)
(* values), so that two messages are equal exactly when their pieces are.  *)
(***************************************************************************)
EXTENDS Integers, Sequences, FiniteSets, TLC

VARIABLES requests_by_id, presets_data, rules_data, artists_data,
          DECISIONS_FILE, now, result, agent, calls

vars == <<requests_by_id, presets_data, rules_data, artists_data,
          DECISIONS_FILE, now, result, agent, calls>>

----------------------------------------------------------------------------
(* Python values                                                           *)

\* JSON null, Python None
None == "null"

\* The empty dict
EmptyDict == <<>>

\* dict.get(key): the value, or None when the key is absent
Get(d, key) == IF key \in DOMAIN d THEN d[key] ELSE None

\* Python truthiness of a string-or-None value: `not v`
Falsy(v) == v = None \/ v = ""

\* The dict {k: v} when present is TRUE, else the empty dict
Opt(present, k, v) == IF present THEN k :> v ELSE EmptyDict

\* Code point of the one-character strings the model sorts
Ord(ch) ==
  CASE ch = "a" -> 97
    [] ch = "b" -> 98
    [] ch = "g" -> 103
    [] ch = "r" -> 114

\* sorted(S) for a set of one-character strings: ascending code point
RECURSIVE sorted(_)
sorted(S) ==
  IF S = {} THEN <<>>
  ELSE LET m == CHOOSE x \in S : \A y \in S : Ord(x) <= Ord(y)
       IN  <<m>> \o sorted(S \ {m})

\* No operation has been called yet
NoResult == [tool |-> "none"]

\* The decision file as it may be found: absent, not valid JSON, or an array
FileMissing == [kind |-> "missing"]
FileUnparsable == [kind |-> "unparsable"]
FileArray(records) == [kind |-> "array", records |-> records]

\* The record_decision calls that may be in progress on the server at once
Callers == {"call-1", "call-2"}

\* No record_decision call is in progress
NoCalls == [c \in Callers |-> [pc |-> "idle", decision |-> EmptyDict,
                               decisions |-> <<>>, out |-> EmptyDict]]

\* run_agent has not been started
AgentIdle == [pc |-> "idle", decisions |-> <<>>]

----------------------------------------------------------------------------
(* Universes the tables and arguments are drawn from                       *)

\* The request id the requests table holds, and one it does not
KnownIds == {"req-001"}
UnknownIds == {"req-999"}
RequestIdArgs == KnownIds \cup UnknownIds

\* Account ids; a preset table holds a preset for any subset of them
Accounts == {"ArcadiaXR", "TitanMfg"}

\* Channel tags a packing mapping may hold: the required four and one more
ChannelTags == {"r", "g", "b", "a", "ao"}

\* A preset: optional "naming", optional "packing" (a dict keyed by channel)
Presets ==
  { Opt(n, "naming", "{asset}_{channel}") @@ p :
      n \in BOOLEAN,
      p \in {EmptyDict} \cup { "packing" :> [c \in chs |-> "tex"] : chs \in SUBSET ChannelTags } }

\* presets.json: a dict from some of the account ids to presets
PresetTables(accounts) == UNION { [accs -> Presets] : accs \in SUBSET accounts }

\* The account field of a request: absent, null, empty, or an account id
RequestsForValidate ==
  {EmptyDict} \cup { "account" :> a : a \in {None, ""} \cup Accounts }

----------------------------------------------------------------------------
(* validate_preset                                                         *)

MsgNoAccount(request_id) == <<"Request '", request_id, "' has no account field">>
MsgRequestNotFound(request_id) == <<"Request '", request_id, "' not found">>
MsgNoPreset(account_id) == <<"No preset found for account '", account_id, "'">>
MsgMissingNaming == <<"Missing naming pattern configuration">>
MsgMissingChannel(ch) == <<"Missing required texture channel: '", ch, "'">>

required_channels == {"r", "g", "b", "a"}

\* The account looked up when the account_id argument is not provided
ResolveAccount(request_id, account_id) ==
  IF Falsy(account_id)
  THEN IF request_id \in DOMAIN requests_by_id
       THEN Get(requests_by_id[request_id], "account")
       ELSE None
  ELSE account_id

\* PresetErrors without the naming check: only the channels are examined
PresetErrors_SkipNaming(preset) ==
  LET packing == IF "packing" \in DOMAIN preset THEN preset["packing"] ELSE EmptyDict
      ordered == sorted(required_channels \ DOMAIN packing)
  IN  [i \in 1..Len(ordered) |-> MsgMissingChannel(ordered[i])]

\* The accumulated errors of a preset: naming first, then the missing channels
PresetErrors(preset) ==
  LET naming_errors == IF "naming" \notin DOMAIN preset THEN <<MsgMissingNaming>> ELSE <<>>
      packing == IF "packing" \in DOMAIN preset THEN preset["packing"] ELSE EmptyDict
      actual_channels == DOMAIN packing
      missing_channels == required_channels \ actual_channels
      ordered == sorted(missing_channels)
  IN  naming_errors \o [i \in 1..Len(ordered) |-> MsgMissingChannel(ordered[i])]

validate_preset(request_id, account_id) ==
  IF Falsy(account_id) /\ request_id \notin DOMAIN requests_by_id
  THEN [ok |-> FALSE, errors |-> <<MsgRequestNotFound(request_id)>>]
  ELSE IF Falsy(account_id) /\ Falsy(ResolveAccount(request_id, account_id))
  THEN [ok |-> FALSE, errors |-> <<MsgNoAccount(request_id)>>]
  ELSE LET account == ResolveAccount(request_id, account_id)
       IN  IF account \notin DOMAIN presets_data
           THEN [ok |-> FALSE, errors |-> <<MsgNoPreset(account)>>]
           ELSE LET errors == PresetErrors(presets_data[account])
                IN  IF errors # <<>>
                    THEN [ok |-> FALSE, errors |-> errors]
                    ELSE [ok |-> TRUE, errors |-> <<>>]

\* A client calls the validate_preset tool
CallValidatePreset ==
  /\ \E request_id \in RequestIdArgs, account_id \in {""} \cup Accounts :
       result' = [tool |-> "validate_preset", request_id |-> request_id,
                  account_id |-> account_id,
                  out |-> validate_preset(request_id, account_id)]
  /\ UNCHANGED <<requests_by_id, presets_data, rules_data, artists_data, calls,
                 DECISIONS_FILE, now, agent>>

\* The server after start-up, with any requests and presets tables
InitValidate ==
  /\ presets_data \in PresetTables(Accounts)
  /\ requests_by_id \in [KnownIds -> RequestsForValidate]
  /\ rules_data = <<>>
  /\ artists_data = <<>>
  /\ DECISIONS_FILE = FileMissing
  /\ now = 0
  /\ result = NoResult
  /\ calls = NoCalls
  /\ agent = AgentIdle

NextValidate == CallValidatePreset

SpecValidate == InitValidate /\ [][NextValidate]_vars

----------------------------------------------------------------------------
(* Claims about validate_preset                                            *)

\* The last operation was a validate_preset call
ValidateCalled == result.tool = "validate_preset"

\* The message text contains "not found"
HasNotFoundText(msg) == \E i \in DOMAIN msg : msg[i] = "' not found"

\* The account a call is about: the argument, or the request's account field
\* when the argument is empty (None when the request is unknown or has none)
AccountOfCall ==
  IF result.account_id # "" THEN result.account_id
  ELSE IF result.request_id \in DOMAIN requests_by_id
       THEN Get(requests_by_id[result.request_id], "account")
       ELSE None

\* C1: for every request id that is not in the requests table and every
\* account_id argument, validate_preset returns ok = false and an error list
\* containing a "not found" message for the request.
C1_UnknownRequestNotFound ==
  (ValidateCalled /\ result.request_id \notin DOMAIN requests_by_id) =>
     /\ result.out.ok = FALSE
     /\ \E i \in DOMAIN result.out.errors :
          /\ HasNotFoundText(result.out.errors[i])
          /\ \E j \in DOMAIN result.out.errors[i] :
               result.out.errors[i][j] = result.request_id

\* The preset has a naming field and packing keys for all of r, g, b, a
PresetComplete(preset) ==
  /\ "naming" \in DOMAIN preset
  /\ "packing" \in DOMAIN preset
  /\ {"r", "g", "b", "a"} \subseteq DOMAIN preset["packing"]

\* C2: for every known request whose account resolves to an existing preset,
\* validate_preset returns ok = true with errors = [] if and only if the
\* preset has a naming field and its packing keys are a superset of
\* {r,g,b,a}; in every result ok is true exactly when the error list is empty.
C2_OkIffPresetComplete ==
  ValidateCalled =>
    /\ (result.out.ok = TRUE) <=> (result.out.errors = <<>>)
    /\ (result.request_id \in DOMAIN requests_by_id
         /\ AccountOfCall \in DOMAIN presets_data) =>
          ((result.out.ok = TRUE /\ result.out.errors = <<>>)
             <=> PresetComplete(presets_data[AccountOfCall]))

\* C2 witness: a known request, its account taken from the request, whose
\* preset has naming and a strict superset of the four channels, validated ok
C2_Witness ==
  /\ ValidateCalled
  /\ result.request_id \in DOMAIN requests_by_id
  /\ result.account_id = ""
  /\ AccountOfCall \in DOMAIN presets_data
  /\ "packing" \in DOMAIN presets_data[AccountOfCall]
  /\ "ao" \in DOMAIN presets_data[AccountOfCall]["packing"]
  /\ result.out.ok = TRUE

\* The errors checks 4 and 5 accumulate: the naming error when naming is
\* absent, then one error per missing channel in alphabetical order
AccumulatedErrors(preset) ==
  LET packing == IF "packing" \in DOMAIN preset THEN preset["packing"] ELSE EmptyDict
      Missing(ch) == ch \notin DOMAIN packing
      missing == SelectSeq(<<"a", "b", "g", "r">>, Missing)
  IN  (IF "naming" \in DOMAIN preset THEN <<>> ELSE <<MsgMissingNaming>>)
      \o [i \in 1..Len(missing) |-> MsgMissingChannel(missing[i])]

\* C3: the error list is a single error when the request is unknown, the
\* request has no account, or the account has no preset; otherwise it is the
\* naming error (if naming is absent) followed by one error per missing
\* channel of {r,g,b,a} in alphabetical order, and nothing else.
C3_ErrorListExact ==
  ValidateCalled =>
    IF \/ result.request_id \notin DOMAIN requests_by_id
       \/ Falsy(AccountOfCall)
       \/ AccountOfCall \notin DOMAIN presets_data
    THEN Len(result.out.errors) = 1
    ELSE result.out.errors = AccumulatedErrors(presets_data[AccountOfCall])

----------------------------------------------------------------------------
(* plan_steps                                                              *)

\* The longest rule list the model loads
MaxRules == 2

\* Request attributes the rules test, with the values each may take
PlanFieldValues == "style" :> {"pbr", "toon"} @@ "priority" :> {"high", None}

\* A dict holding any subset of the fields, each with one of its values
DictsOver(fieldValues) ==
  UNION { [keys -> UNION { fieldValues[k] : k \in keys }] : keys \in SUBSET DOMAIN fieldValues }

WellTyped(d, fieldValues) == \A k \in DOMAIN d : d[k] \in fieldValues[k]

PlanDicts == { d \in DictsOver(PlanFieldValues) : WellTyped(d, PlanFieldValues) }

\* A rule's "then": a steps list, or another directive without steps
RuleActions ==
  { "queue" :> "expedite",
    "steps" :> <<"style_tweak_review">>,
    "steps" :> <<"export_unreal_glb", "style_tweak_review">> }

Rules == { "if" :> c @@ "then" :> a : c \in PlanDicts, a \in RuleActions }

\* rules.json: a list of at most max rules
RuleLists(max) == UNION { [1..n -> Rules] : n \in 0..max }

\* all(request.get(key) == value for key, value in conditions.items())
RuleMatches(request, conditions) ==
  \A key \in DOMAIN conditions : Get(request, key) = conditions[key]

\* ExtendSteps adding only the steps not already planned
ExtendSteps_Dedup(steps, actions) ==
  IF "steps" \in DOMAIN actions
  THEN LET New(st) == \A i \in DOMAIN steps : steps[i] # st
       IN  steps \o SelectSeq(actions["steps"], New)
  ELSE steps

\* if "steps" in actions: steps.extend(actions["steps"])
ExtendSteps(steps, actions) ==
  IF "steps" \in DOMAIN actions THEN steps \o actions["steps"] ELSE steps

\* The for loop over enumerate(rules_data), from rule_idx on
RECURSIVE PlanLoop(_, _, _, _)
PlanLoop(request, rule_idx, steps, matched_rules) ==
  IF rule_idx >= Len(rules_data)
  THEN [steps |-> steps, matched_rules |-> matched_rules]
  ELSE LET rule == rules_data[rule_idx + 1]
           conditions == rule["if"]
           actions == rule["then"]
       IN  IF RuleMatches(request, conditions)
           THEN PlanLoop(request, rule_idx + 1, ExtendSteps(steps, actions),
                         Append(matched_rules,
                                [rule_index |-> rule_idx, conditions |-> conditions,
                                 actions |-> actions]))
           ELSE PlanLoop(request, rule_idx + 1, steps, matched_rules)

plan_steps(request_id) ==
  IF request_id \notin DOMAIN requests_by_id
  THEN [steps |-> <<>>, matched_rules |-> <<>>]
  ELSE PlanLoop(requests_by_id[request_id], 0, <<>>, <<>>)

\* A client calls the plan_steps tool
CallPlanSteps ==
  /\ \E request_id \in RequestIdArgs :
       result' = [tool |-> "plan_steps", request_id |-> request_id,
                  out |-> plan_steps(request_id)]
  /\ UNCHANGED <<requests_by_id, presets_data, rules_data, artists_data, calls,
                 DECISIONS_FILE, now, agent>>

\* The server after start-up, with any requests table and rule list
InitPlan ==
  /\ rules_data \in RuleLists(MaxRules)
  /\ requests_by_id \in [KnownIds -> PlanDicts]
  /\ presets_data = EmptyDict
  /\ artists_data = <<>>
  /\ DECISIONS_FILE = FileMissing
  /\ now = 0
  /\ result = NoResult
  /\ calls = NoCalls
  /\ agent = AgentIdle

NextPlan == CallPlanSteps

SpecPlan == InitPlan /\ [][NextPlan]_vars

----------------------------------------------------------------------------
(* Claims about plan_steps                                                 *)

\* The last operation was a plan_steps call for a request of the table
PlanCalledKnown ==
  result.tool = "plan_steps" /\ result.request_id \in DOMAIN requests_by_id

\* Every condition equal-matches: the request's value for the field (null
\* when the request has none) equals the required value
EqualMatch(rule, request) ==
  \A key \in DOMAIN rule["if"] : Get(request, key) = rule["if"][key]

\* The steps list of a rule (empty when its actions have none)
StepsOf(rule) ==
  IF "steps" \in DOMAIN rule["then"] THEN rule["then"]["steps"] ELSE <<>>

\* The concatenation of the steps of rules n+1.. that equal-match the request
RECURSIVE ConcatMatching(_, _)
ConcatMatching(n, request) ==
  IF n >= Len(rules_data) THEN <<>>
  ELSE (IF EqualMatch(rules_data[n + 1], request) THEN StepsOf(rules_data[n + 1]) ELSE <<>>)
       \o ConcatMatching(n + 1, request)

C5_MatchIffPresentAndEqual ==
  PlanCalledKnown =>
    LET request == requests_by_id[result.request_id]
        matched == { result.out.matched_rules[k].rule_index + 1 : k \in DOMAIN result.out.matched_rules }
    IN  \A i \in 1..Len(rules_data) :
          (i \in matched) <=>
            (\A key \in DOMAIN rules_data[i]["if"] :
               key \in DOMAIN request /\ request[key] = rules_data[i]["if"][key])

----------------------------------------------------------------------------
(* assign_artist                                                           *)

\* The largest artist pool the model loads
MaxArtists == 2

\* str.lower() on the strings of the model
Lower(str) ==
  CASE str = "PBR" -> "pbr"
    [] str = "Pbr" -> "pbr"
    [] str = "Unreal" -> "unreal"
    [] OTHER -> str

\* Skill tags as artists.json may spell them
SkillTags == {"PBR", "unreal", "quad_only"}

\* (active_load, capacity_concurrent): spare capacity, full, and over capacity
LoadCapacity == {<<0, 1>>, <<1, 2>>, <<1, 1>>, <<2, 1>>}

ArtistIds == <<"a-1", "a-2", "a-3", "a-4">>
ArtistNames == <<"Ada", "Ben", "Cleo", "Dev">>

\* The artist at position i of artists.json
ArtistsAt(i) ==
  { [id |-> ArtistIds[i], name |-> ArtistNames[i], skills |-> sk,
     active_load |-> lc[1], capacity_concurrent |-> lc[2]] :
      sk \in SUBSET SkillTags, lc \in LoadCapacity }

\* artists.json: the lists of exactly n artists
RECURSIVE ArtistLists(_)
ArtistLists(n) ==
  IF n = 0 THEN {<<>>}
  ELSE { Append(pool, artist) : pool \in ArtistLists(n - 1), artist \in ArtistsAt(n) }

\* artists.json: a list of at most max artists
ArtistPools(max) == UNION { ArtistLists(n) : n \in 0..max }

\* Request attributes assign_artist reads, with the values each may take
AssignFieldValues ==
  "style" :> {"Pbr", "pbr"} @@ "engine" :> {"Unreal"} @@ "topology" :> {"quad_only"}

AssignDicts == { d \in DictsOver(AssignFieldValues) : WellTyped(d, AssignFieldValues) }

\* The required skills list: style, engine lower-cased, topology, when present
RequiredSkills(request) ==
  (IF "style" \in DOMAIN request THEN <<request["style"]>> ELSE <<>>)
  \o (IF "engine" \in DOMAIN request THEN <<Lower(request["engine"])>> ELSE <<>>)
  \o (IF "topology" \in DOMAIN request THEN <<request["topology"]>> ELSE <<>>)

\* has_capacity with <= for <
has_capacity_OffByOne(artist) == artist.active_load <= artist.capacity_concurrent

\* has_capacity = artist["active_load"] < artist["capacity_concurrent"]
has_capacity(artist) == artist.active_load < artist.capacity_concurrent

\* skills_match comparing the tags as spelled
skills_match_CaseSensitive(artist, required_skills) ==
  { required_skills[i] : i \in DOMAIN required_skills } \subseteq artist.skills

\* skills_match: the lower-cased required skills are a subset of the
\* artist's lower-cased skills
skills_match(artist, required_skills) ==
  LET artist_skills == { Lower(skill) : skill \in artist.skills }
      required_skills_lower == { Lower(required_skills[i]) : i \in DOMAIN required_skills }
  IN  required_skills_lower \subseteq artist_skills

\* The for loop over artists_data, from position i on
RECURSIVE EligibleArtists(_, _)
EligibleArtists(i, required_skills) ==
  IF i > Len(artists_data) THEN <<>>
  ELSE LET artist == artists_data[i]
       IN  (IF has_capacity(artist) /\ skills_match(artist, required_skills)
            THEN <<[id |-> artist.id, name |-> artist.name,
                    load |-> artist.active_load, capacity |-> artist.capacity_concurrent]>>
            ELSE <<>>)
           \o EligibleArtists(i + 1, required_skills)

\* min keeping the last of the elements with the smallest load
RECURSIVE MinByLoad_LastWins(_, _, _)
MinByLoad_LastWins(eligible, i, best) ==
  IF i > Len(eligible) THEN best
  ELSE MinByLoad_LastWins(eligible, i + 1,
                          IF eligible[i].load <= best.load THEN eligible[i] ELSE best)

\* min(eligible, key=load) over positions i.. with the best so far: a later
\* element replaces it only when its load is strictly smaller
RECURSIVE MinByLoad(_, _, _)
MinByLoad(eligible, i, best) ==
  IF i > Len(eligible) THEN best
  ELSE MinByLoad(eligible, i + 1, IF eligible[i].load < best.load THEN eligible[i] ELSE best)

assign_artist(request_id) ==
  IF request_id \notin DOMAIN requests_by_id
  THEN [artist_id |-> None, artist_name |-> None,
        reason |-> <<"Request '", request_id, "' not found">>]
  ELSE LET required_skills == RequiredSkills(requests_by_id[request_id])
           eligible_artists == EligibleArtists(1, required_skills)
       IN  IF eligible_artists = <<>>
           THEN [artist_id |-> None, artist_name |-> None,
                 reason |-> <<"No artists available with required skills: ", required_skills>>]
           ELSE LET best_artist == MinByLoad(eligible_artists, 2, eligible_artists[1])
                IN  [artist_id |-> best_artist.id, artist_name |-> best_artist.name,
                     reason |-> <<best_artist.name, " has required skills ", required_skills,
                                  " and capacity (", best_artist.load, "/",
                                  best_artist.capacity, ")">>]

\* A client calls the assign_artist tool
CallAssignArtist ==
  /\ \E request_id \in RequestIdArgs :
       result' = [tool |-> "assign_artist", request_id |-> request_id,
                  out |-> assign_artist(request_id)]
  /\ UNCHANGED <<requests_by_id, presets_data, rules_data, artists_data, calls,
                 DECISIONS_FILE, now, agent>>

\* The server after start-up, with any requests table and artist pool
InitAssign ==
  /\ artists_data \in ArtistPools(MaxArtists)
  /\ requests_by_id \in [KnownIds -> AssignDicts]
  /\ presets_data = EmptyDict
  /\ rules_data = <<>>
  /\ DECISIONS_FILE = FileMissing
  /\ now = 0
  /\ result = NoResult
  /\ calls = NoCalls
  /\ agent = AgentIdle

NextAssign == CallAssignArtist

SpecAssign == InitAssign /\ [][NextAssign]_vars

----------------------------------------------------------------------------
(* Claims about assign_artist                                              *)

AssignCalled == result.tool = "assign_artist"

\* The lower-cased skills a request requires: its style, engine and topology
RequiredLower(request) ==
  { Lower(request[f]) : f \in DOMAIN request \cap {"style", "engine", "topology"} }

\* The artist has spare capacity and every required skill, ignoring case
Eligible(artist, request) ==
  /\ artist.active_load < artist.capacity_concurrent
  /\ RequiredLower(request) \subseteq { Lower(sk) : sk \in artist.skills }

\* C6: if assign_artist returns a non-null artist, that artist has
\* active_load < capacity_concurrent, its lower-cased skill set contains every
\* lower-cased required skill, and no other artist meeting both conditions
\* has a smaller active_load.
C6_AssignedArtistEligibleMinLoad ==
  (AssignCalled /\ result.out.artist_id # None) =>
    /\ result.request_id \in DOMAIN requests_by_id
    /\ \E i \in DOMAIN artists_data :
         LET request == requests_by_id[result.request_id]
             artist == artists_data[i]
         IN  /\ artist.id = result.out.artist_id
             /\ artist.name = result.out.artist_name
             /\ Eligible(artist, request)
             /\ \A j \in DOMAIN artists_data :
                  Eligible(artists_data[j], request) =>
                    artist.active_load <= artists_data[j].active_load

\* C6 witness: the artist returned comes second in a pool whose first artist
\* is eligible too with a larger load, for a request with required skills
C6_Witness ==
  /\ AssignCalled
  /\ result.out.artist_id = "a-2"
  /\ RequiredLower(requests_by_id[result.request_id]) # {}
  /\ Eligible(artists_data[1], requests_by_id[result.request_id])

\* C7: assign_artist returns artist_id = null and artist_name = null with a
\* non-empty reason exactly when the request is unknown or no artist has both
\* spare capacity and all required skills; whenever an eligible artist exists
\* for a known request it returns a non-null artist.
C7_NullExactlyWhenNoneEligible ==
  AssignCalled =>
    LET known == result.request_id \in DOMAIN requests_by_id
        noneEligible ==
          known => \A i \in DOMAIN artists_data :
                     ~Eligible(artists_data[i], requests_by_id[result.request_id])
    IN  /\ (result.out.artist_id = None /\ result.out.artist_name = None
            /\ result.out.reason # <<>>) <=> noneEligible
        /\ ~noneEligible => (result.out.artist_id # None /\ result.out.artist_name # None)

\* C7 witness: a known request whose required skills an artist has, but that
\* artist is at capacity, so no artist is returned
C7_Witness ==
  /\ AssignCalled
  /\ result.request_id \in DOMAIN requests_by_id
  /\ result.out.artist_id = None
  /\ RequiredLower(requests_by_id[result.request_id]) # {}
  /\ \E i \in DOMAIN artists_data :
       /\ RequiredLower(requests_by_id[result.request_id])
            \subseteq { Lower(sk) : sk \in artists_data[i].skills }
       /\ artists_data[i].active_load = artists_data[i].capacity_concurrent

\* Position i holds the first of the eligible artists with the smallest load
FirstWithMinLoad(i, request) ==
  /\ Eligible(artists_data[i], request)
  /\ \A j \in DOMAIN artists_data :
       Eligible(artists_data[j], request) =>
         /\ artists_data[i].active_load <= artists_data[j].active_load
         /\ (j < i => artists_data[j].active_load > artists_data[i].active_load)

\* C14: for a known request with an eligible artist, assign_artist returns
\* the id and name of the first artist in pool order among the eligible
\* artists with the smallest active_load, so the pool and the request
\* determine the result; and no call changes the pool, so a repeated call
\* returns the same artist
C14_FirstInPoolOrderWinsTie ==
  /\ [](AssignCalled /\ result.request_id \in DOMAIN requests_by_id =>
         \A i \in DOMAIN artists_data :
           FirstWithMinLoad(i, requests_by_id[result.request_id]) =>
             /\ result.out.artist_id = artists_data[i].id
             /\ result.out.artist_name = artists_data[i].name)
  /\ [][result'.tool = "assign_artist" => artists_data' = artists_data]_vars

\* C14 witness: both artists of the pool are eligible with the same load,
\* and the first one is returned
C14_Witness ==
  /\ AssignCalled
  /\ result.request_id \in DOMAIN requests_by_id
  /\ Len(artists_data) = 2
  /\ Eligible(artists_data[1], requests_by_id[result.request_id])
  /\ Eligible(artists_data[2], requests_by_id[result.request_id])
  /\ artists_data[1].active_load = artists_data[2].active_load
  /\ result.out.artist_id = artists_data[1].id

----------------------------------------------------------------------------
(* record_decision and the decision file                                   *)

\* The most entries the decision file holds in the model
MaxRecords == 2

\* The last reading of the clock in the model; the clock reads two ticks per
\* second, so that two readings may or may not fall within the same second
MaxClock == 3

Min(a, b) == IF a < b THEN a ELSE b

\* datetime.now().strftime('%Y%m%d%H%M%S'): the reading cut to the second
Strftime(t) == ToString(t \div 2)

\* datetime.now().isoformat(): the reading in full
Isoformat(t) == "T" \o ToString(t)

\* The record's own keys, which a caller's payload may hold too
PayloadFieldValues ==
  "decision_id" :> {"dec-custom"} @@ "request_id" :> {"req-other"}
  @@ "recorded_at" :> {"2020-01-01T00:00:00"}

\* decision_data: the chosen artist, and any of the record's own keys
DecisionPayloads ==
  { "artist_id" :> "a-1" @@ d :
      d \in { e \in DictsOver(PayloadFieldValues) : WellTyped(e, PayloadFieldValues) } }

\* f"dec-{request_id}-{datetime.now().strftime('%Y%m%d%H%M%S')}"
GeneratedId(request_id, t) == "dec-" \o request_id \o "-" \o Strftime(t)

\* The decision record: the generated fields, then **decision_data, whose
\* keys replace equal keys before them
NewDecision(request_id, decision_data, t1, t2) ==
  decision_data
  @@ ("decision_id" :> GeneratedId(request_id, t1)
      @@ "request_id" :> request_id
      @@ "recorded_at" :> Isoformat(t2))

\* LoadDecisions starting from an empty list whatever the file holds
LoadDecisions_Fresh(file) == <<>>

\* Load existing decisions: the array in the file, or [] when the file does
\* not exist or does not parse
LoadDecisions(file) ==
  IF file.kind = "array" THEN file.records ELSE <<>>

\* A client calls the record_decision tool.  The clock is read at t1 for the
\* decision id and at t2 for recorded_at.
CallRecordDecision ==
  /\ Len(LoadDecisions(DECISIONS_FILE)) < MaxRecords
  /\ \E request_id \in RequestIdArgs, decision_data \in DecisionPayloads :
     \E t1 \in now..Min(now + 1, MaxClock) :
     \E t2 \in t1..Min(t1 + 1, MaxClock) :
       LET decision == NewDecision(request_id, decision_data, t1, t2)
           decisions == Append(LoadDecisions(DECISIONS_FILE), decision)
       IN  /\ DECISIONS_FILE' = FileArray(decisions)
           /\ now' = t2
           /\ result' = [tool |-> "record_decision", request_id |-> request_id,
                         decision_data |-> decision_data,
                         out |-> [decision_id |-> decision["decision_id"],
                                  recorded_at |-> decision["recorded_at"],
                                  success |-> TRUE]]
  /\ UNCHANGED <<requests_by_id, presets_data, rules_data, artists_data, calls, agent>>

----------------------------------------------------------------------------
(* run_agent: the batch of requests and the end-of-run write               *)

\* The request ids given on the command line
AgentRequestIds == <<"req-001">>

\* What process_request returns for a request: a completed run, with
\* validation passed or failed, or the iteration limit (the tool trace is
\* left empty)
ProcessRequestResults(request_id, t) ==
  { [request_id |-> request_id, validation_passed |-> v, rationale |-> "final_text",
     trace |-> <<>>, completed_at |-> Isoformat(t)] : v \in BOOLEAN }
  \cup
  { [request_id |-> request_id, validation_passed |-> FALSE,
     rationale |-> "Agent exceeded maximum iteration limit",
     trace |-> <<>>, completed_at |-> Isoformat(t),
     error |-> "max_iterations_exceeded"] }

\* What run_agent records when process_request raises
ProcessRequestError(request_id, t) ==
  [request_id |-> request_id, error |-> "exception", completed_at |-> Isoformat(t)]

\* run_agent starts: decisions = [] and the session is opened
AgentStart ==
  /\ agent.pc = "idle"
  /\ agent' = [pc |-> "processing", decisions |-> <<>>]
  /\ UNCHANGED <<requests_by_id, presets_data, rules_data, artists_data, calls,
                 DECISIONS_FILE, now, result>>

\* The loop over request_ids: the next request is processed and its result,
\* or the error it raised, is appended to decisions
AgentProcessRequest ==
  /\ agent.pc = "processing"
  /\ Len(agent.decisions) < Len(AgentRequestIds)
  /\ LET request_id == AgentRequestIds[Len(agent.decisions) + 1]
     IN  \E r \in ProcessRequestResults(request_id, now)
                  \cup {ProcessRequestError(request_id, now)} :
           agent' = [agent EXCEPT !.decisions = Append(@, r)]
  /\ UNCHANGED <<requests_by_id, presets_data, rules_data, artists_data, calls,
                 DECISIONS_FILE, now, result>>

\* After the loop: decisions is written over decisions.json
AgentWriteDecisions ==
  /\ agent.pc = "processing"
  /\ Len(agent.decisions) = Len(AgentRequestIds)
  /\ DECISIONS_FILE' = FileArray(agent.decisions)
  /\ agent' = [agent EXCEPT !.pc = "done"]
  /\ UNCHANGED <<requests_by_id, presets_data, rules_data, artists_data, calls,
                 now, result>>

\* The server and the agent started beside whatever decision file there is
InitRecord ==
  /\ requests_by_id = [id \in KnownIds |-> EmptyDict]
  /\ presets_data = EmptyDict
  /\ rules_data = <<>>
  /\ artists_data = <<>>
  /\ DECISIONS_FILE \in {FileMissing, FileUnparsable, FileArray(<<>>)}
  /\ now = 0
  /\ result = NoResult
  /\ calls = NoCalls
  /\ agent = AgentIdle

NextRecord ==
  \/ CallRecordDecision
  \/ AgentStart
  \/ AgentProcessRequest
  \/ AgentWriteDecisions

SpecRecord == InitRecord /\ [][NextRecord]_vars

----------------------------------------------------------------------------
(* Claims about record_decision and the decision file                      *)

\* The step is a record_decision call that returned: among the steps that
\* leave the agent where it is, only these leave a record_decision result
RecordDecisionReturned ==
  agent' = agent /\ result'.tool = "record_decision"

\* The records a decision file counts as holding
HeldRecords(file) == IF file.kind = "array" THEN file.records ELSE <<>>

\* C8: under sequential calls, every record_decision call that returns leaves
\* the decision file holding the records it held before, unchanged and in the
\* same order, followed by exactly one new record; a missing or unparsable
\* file counts as holding zero records.
C8_OneRecordAppended ==
  [][RecordDecisionReturned =>
       LET before == HeldRecords(DECISIONS_FILE)
           after == HeldRecords(DECISIONS_FILE')
       IN  /\ DECISIONS_FILE'.kind = "array"
           /\ Len(after) = Len(before) + 1
           /\ \A i \in 1..Len(before) : after[i] = before[i]
           /\ after[Len(after)]["decision_id"] = result'.out.decision_id]_vars

\* C8 witness: a record_decision call has returned and its record is the
\* second entry of the file, after the entry the file held before
C8_Witness ==
  /\ result.tool = "record_decision"
  /\ DECISIONS_FILE.kind = "array"
  /\ Len(DECISIONS_FILE.records) = 2
  /\ DECISIONS_FILE.records[2]["decision_id"] = result.out.decision_id

\* C9: for every request id and every payload (including payloads holding
\* the keys decision_id, request_id or recorded_at), the decision_id returned
\* and stored in the appended record is the generated dec-<request_id>-
\* <timestamp>, the stored request_id is the argument, and success is true.
C9_GeneratedIdReturnedAndStored ==
  [][RecordDecisionReturned =>
       LET after == HeldRecords(DECISIONS_FILE')
           stored == after[Len(after)]
       IN  /\ result'.out.success = TRUE
           /\ \E t \in 0..MaxClock :
                /\ result'.out.decision_id = "dec-" \o result'.request_id \o "-" \o Strftime(t)
                /\ stored["decision_id"] = result'.out.decision_id
           /\ stored["request_id"] = result'.request_id]_vars

\* An entry of the decision file that record_decision wrote
IsDecisionRecord(entry) == "recorded_at" \in DOMAIN entry

\* C10: once record_decision has written a record to the decision file, that
\* record stays in the file after every later operation, including later
\* record_decision calls and the agent's end-of-run write.
C10_RecordsStayInFile ==
  [][\A i \in DOMAIN HeldRecords(DECISIONS_FILE) :
       IsDecisionRecord(HeldRecords(DECISIONS_FILE)[i]) =>
         \E j \in DOMAIN HeldRecords(DECISIONS_FILE') :
           /\ IsDecisionRecord(HeldRecords(DECISIONS_FILE')[j])
           /\ HeldRecords(DECISIONS_FILE')[j] = HeldRecords(DECISIONS_FILE)[i]]_vars

----------------------------------------------------------------------------
(* process_request: the agent loop for one request                         *)

\* max_iterations = 20
max_iterations == 20

\* The most tool_use blocks one model response holds in the model
MaxBlocks == 2

\* The tools the server lists, which the model may ask for in any order
AgentTools == {"validate_preset", "plan_steps", "assign_artist", "record_decision"}

\* response.stop_reason: the two the loop tests for, and one it does not
StopReasons == {"tool_use", "end_turn", "max_tokens"}

\* The tables of the data directory as the tests describe them: req-001 of
\* ArcadiaXR, whose preset is complete; TitanMfg's preset lacks channel a;
\* Ada has the style skill and is full, Ben has capacity
AgentRequests ==
  "req-001" :> [account |-> "ArcadiaXR", style |-> "Pbr", engine |-> "Unreal"]

AgentPresets ==
  "ArcadiaXR" :> [naming |-> "{asset}_{channel}",
                  packing |-> [c \in {"r", "g", "b", "a"} |-> "tex"]]
  @@ "TitanMfg" :> [naming |-> "{asset}_{channel}",
                    packing |-> [c \in {"r", "g", "b"} |-> "tex"]]

AgentRules ==
  << [if |-> [style |-> "Pbr"], then |-> [steps |-> <<"style_tweak_review">>]],
     [if |-> [engine |-> "Unreal"], then |-> [steps |-> <<"export_unreal_glb">>]] >>

AgentArtists ==
  << [id |-> "a-1", name |-> "Ada", skills |-> {"PBR", "unreal"},
      active_load |-> 2, capacity_concurrent |-> 2],
     [id |-> "a-2", name |-> "Ben", skills |-> {"PBR", "unreal", "quad_only"},
      active_load |-> 0, capacity_concurrent |-> 1] >>

\* The decision payload the model sends to record_decision
AgentPayloads == { "artist_id" :> "a-2" }

\* run_agent is about to call process_request for its next request id
AgentProcessing(decisions) ==
  [pc |-> "processing", decisions |-> decisions, iteration |-> 0,
   validation_failed |-> FALSE, blocks_left |-> 0, last_tool |-> "none",
   last_has_output |-> FALSE, stop_reason |-> "none"]

\* The request id process_request is working on
CurrentRequestId == AgentRequestIds[Len(agent.decisions) + 1]

\* The return value at end_turn
CompletedResult(request_id, validation_failed, t) ==
  [request_id |-> request_id, validation_passed |-> ~validation_failed,
   rationale |-> "final_text", trace |-> <<>>, completed_at |-> Isoformat(t)]

\* The return value after the while loop
MaxIterationsResult(request_id, t) ==
  [request_id |-> request_id, validation_passed |-> FALSE,
   rationale |-> "Agent exceeded maximum iteration limit",
   trace |-> <<>>, completed_at |-> Isoformat(t),
   error |-> "max_iterations_exceeded"]

\* process_request returns r after `iteration` passes of the loop: run_agent
\* appends r to decisions
ReturnToRunAgent(r, iteration, stop_reason) ==
  agent' = [agent EXCEPT !.pc = "processing", !.decisions = Append(@, r),
                         !.iteration = iteration, !.stop_reason = stop_reason]

\* The while test with <= for <
WhileCondition_OffByOne(iteration) == iteration <= max_iterations

\* while iteration < max_iterations
WhileCondition(iteration) == iteration < max_iterations

\* run_agent calls process_request for the next request id
ProcessRequestBegin ==
  /\ agent.pc = "processing"
  /\ Len(agent.decisions) < Len(AgentRequestIds)
  /\ agent' = [AgentProcessing(agent.decisions) EXCEPT !.pc = "while"]
  /\ UNCHANGED <<requests_by_id, presets_data, rules_data, artists_data, calls,
                 DECISIONS_FILE, now, result>>

\* One pass of the while loop up to the test of the stop reason: the model
\* is called and answers with any stop reason; a tool_use answer holds
\* between one and MaxBlocks tool_use blocks
ModelResponds ==
  /\ agent.pc = "while"
  /\ WhileCondition(agent.iteration)
  /\ \E stop_reason \in StopReasons :
       \/ /\ stop_reason = "tool_use"
          /\ \E n \in 1..MaxBlocks :
               agent' = [agent EXCEPT !.iteration = @ + 1, !.pc = "for",
                                      !.blocks_left = n,
                                      !.stop_reason = stop_reason]
       \/ /\ stop_reason = "end_turn"
          /\ ReturnToRunAgent(CompletedResult(CurrentRequestId, agent.validation_failed, now),
                              agent.iteration + 1, stop_reason)
       \/ /\ stop_reason \notin {"tool_use", "end_turn"}
          /\ ReturnToRunAgent(MaxIterationsResult(CurrentRequestId, now),
                              agent.iteration + 1, stop_reason)
  /\ UNCHANGED <<requests_by_id, presets_data, rules_data, artists_data, calls,
                 DECISIONS_FILE, now, result>>

\* The while test fails: the code after the loop returns
LoopExit ==
  /\ agent.pc = "while"
  /\ ~WhileCondition(agent.iteration)
  /\ ReturnToRunAgent(MaxIterationsResult(CurrentRequestId, now), agent.iteration,
                      agent.stop_reason)
  /\ UNCHANGED <<requests_by_id, presets_data, rules_data, artists_data, calls,
                 DECISIONS_FILE, now, result>>

\* The account_id the model passes to validate_preset
AgentAccountArgs == {"", "TitanMfg"}

\* The for loop reaches the next tool_use block: the tool is entered in the
\* trace and called through the session, and its result is parsed; a
\* validate_preset result that is not ok sets validation_failed
DispatchTool ==
  /\ agent.pc = "for"
  /\ agent.blocks_left > 0
  /\ \E tool_name \in AgentTools :
       \/ /\ tool_name = "validate_preset"
          /\ \E account_id \in AgentAccountArgs :
               LET out == validate_preset(CurrentRequestId, account_id)
               IN  /\ result' = [tool |-> tool_name, request_id |-> CurrentRequestId,
                                 account_id |-> account_id, out |-> out]
                   /\ agent' = [agent EXCEPT !.blocks_left = @ - 1,
                                             !.last_tool = tool_name,
                                             !.last_has_output = TRUE,
                                             !.validation_failed = @ \/ ~out.ok]
          /\ UNCHANGED <<DECISIONS_FILE, now>>
       \/ /\ tool_name = "plan_steps"
          /\ result' = [tool |-> tool_name, request_id |-> CurrentRequestId,
                        out |-> plan_steps(CurrentRequestId)]
          /\ agent' = [agent EXCEPT !.blocks_left = @ - 1, !.last_tool = tool_name,
                                    !.last_has_output = TRUE]
          /\ UNCHANGED <<DECISIONS_FILE, now>>
       \/ /\ tool_name = "assign_artist"
          /\ result' = [tool |-> tool_name, request_id |-> CurrentRequestId,
                        out |-> assign_artist(CurrentRequestId)]
          /\ agent' = [agent EXCEPT !.blocks_left = @ - 1, !.last_tool = tool_name,
                                    !.last_has_output = TRUE]
          /\ UNCHANGED <<DECISIONS_FILE, now>>
       \/ /\ tool_name = "record_decision"
          /\ Len(LoadDecisions(DECISIONS_FILE)) < MaxRecords
          /\ \E decision_data \in AgentPayloads :
             \E t1 \in now..Min(now + 1, MaxClock) :
             \E t2 \in t1..Min(t1 + 1, MaxClock) :
               LET decision == NewDecision(CurrentRequestId, decision_data, t1, t2)
               IN  /\ DECISIONS_FILE' =
                        FileArray(Append(LoadDecisions(DECISIONS_FILE), decision))
                   /\ now' = t2
                   /\ result' = [tool |-> tool_name, request_id |-> CurrentRequestId,
                                 decision_data |-> decision_data,
                                 out |-> [decision_id |-> decision["decision_id"],
                                          recorded_at |-> decision["recorded_at"],
                                          success |-> TRUE]]
          /\ agent' = [agent EXCEPT !.blocks_left = @ - 1, !.last_tool = tool_name,
                                    !.last_has_output = TRUE]
  /\ UNCHANGED <<requests_by_id, presets_data, rules_data, artists_data, calls>>

\* The call of the next tool_use block raises, or returns no content: the
\* tool is in the trace, an error result is kept for the model, and
\* validation_failed is left as it is
DispatchToolFails ==
  /\ agent.pc = "for"
  /\ agent.blocks_left > 0
  /\ \E tool_name \in AgentTools :
       agent' = [agent EXCEPT !.blocks_left = @ - 1, !.last_tool = tool_name,
                              !.last_has_output = FALSE]
  /\ UNCHANGED <<requests_by_id, presets_data, rules_data, artists_data, calls,
                 DECISIONS_FILE, now, result>>

\* The for loop is over: the tool results (and, once validation has failed,
\* the request to stop) are added to the messages and the while loop goes on
ForLoopEnds ==
  /\ agent.pc = "for"
  /\ agent.blocks_left = 0
  /\ agent' = [agent EXCEPT !.pc = "while"]
  /\ UNCHANGED <<requests_by_id, presets_data, rules_data, artists_data, calls,
                 DECISIONS_FILE, now, result>>

\* run_agent has connected to a server that loaded the data directory
InitAgent ==
  /\ requests_by_id = AgentRequests
  /\ presets_data = AgentPresets
  /\ rules_data = AgentRules
  /\ artists_data = AgentArtists
  /\ DECISIONS_FILE \in {FileMissing, FileUnparsable, FileArray(<<>>)}
  /\ now = 0
  /\ result = NoResult
  /\ calls = NoCalls
  /\ agent = AgentProcessing(<<>>)

NextAgent ==
  \/ ProcessRequestBegin
  \/ ModelResponds
  \/ LoopExit
  \/ DispatchTool
  \/ DispatchToolFails
  \/ ForLoopEnds
  \/ AgentWriteDecisions

SpecAgent == InitAgent /\ [][NextAgent]_vars

\* Every model call and every tool call returns, and run_agent runs on
SpecAgentFair == SpecAgent /\ WF_vars(NextAgent)

----------------------------------------------------------------------------
(* Claims about process_request                                            *)

\* The steps after validation in the workflow
DownstreamTools == {"plan_steps", "assign_artist", "record_decision"}

\* This step sends one tool_use block's call to the tool server and gets
\* its output
ToolDispatched ==
  /\ agent.pc = "for"
  /\ agent'.pc = "for"
  /\ agent'.blocks_left = agent.blocks_left - 1
  /\ agent'.last_has_output

\* C11: once a validate_preset call of this request has returned ok = false,
\* no later step of the loop, in the same response or in a later iteration,
\* sends plan_steps, assign_artist or record_decision to the tool server
C11_NoDownstreamAfterFailedValidation ==
  [][(agent.validation_failed /\ ToolDispatched)
       => agent'.last_tool \notin DownstreamTools]_vars

\* process_request has returned to run_agent for every request id
ProcessRequestReturned == Len(agent.decisions) = Len(AgentRequestIds)

\* C12: when every model call and every tool call returns, process_request
\* returns a result; it never makes more than max_iterations model calls, and
\* it has returned as soon as a response's stop reason is end_turn
C12_TerminatesWithinMaxIterations ==
  /\ [](agent.iteration <= max_iterations)
  /\ [](agent.stop_reason = "end_turn" => ProcessRequestReturned)
  /\ <>ProcessRequestReturned

\* The loop ran to the cap: max_iterations model calls, all answered with
\* tool_use, and process_request has returned
C12_Witness ==
  /\ ProcessRequestReturned
  /\ agent.iteration = max_iterations
  /\ agent.stop_reason = "tool_use"

\* The result process_request returned carries error max_iterations_exceeded
ReportsMaxIterations(r) ==
  /\ "error" \in DOMAIN r
  /\ r["error"] = "max_iterations_exceeded"

\* C15: a returned result carries error max_iterations_exceeded only when
\* max_iterations model calls were made for the request and none of them
\* was answered with end_turn
C15_MaxIterationsErrorOnlyAtCap ==
  \A i \in 1..Len(agent.decisions) :
    ReportsMaxIterations(agent.decisions[i])
      => /\ agent.iteration = max_iterations
         /\ agent.stop_reason # "end_turn"

----------------------------------------------------------------------------
(* record_decision called by two clients at once                           *)

\* The decision_data of the concurrent calls
RacePayloads == { "artist_id" :> "a-1", "artist_id" :> "a-2" }

\* The decision file before the calls: absent, broken, empty, or holding one
\* earlier decision
RaceFiles ==
  { FileMissing, FileUnparsable, FileArray(<<>>),
    FileArray(<<NewDecision("req-001", "artist_id" :> "a-1", 0, 0)>>) }

\* Writing with the file read again and rewritten in one step
WriteBack_Reload(file, decisions, decision) ==
  FileArray(Append(LoadDecisions(file), decision))

\* decisions.append(decision) and the dump of the list the call loaded
WriteBack(file, decisions, decision) ==
  FileArray(Append(decisions, decision))

\* A call starts: the decision record is created from two readings of the clock
RecordCreate(c) ==
  /\ calls[c].pc = "idle"
  /\ \E request_id \in RequestIdArgs, decision_data \in RacePayloads :
     \E t1 \in now..Min(now + 1, MaxClock) :
     \E t2 \in t1..Min(t1 + 1, MaxClock) :
       /\ calls' = [calls EXCEPT ![c].pc = "created",
                                 ![c].decision =
                                   NewDecision(request_id, decision_data, t1, t2)]
       /\ now' = t2
  /\ UNCHANGED <<requests_by_id, presets_data, rules_data, artists_data,
                 DECISIONS_FILE, result, agent>>

\* The call reads the decision file into its own list
RecordLoad(c) ==
  /\ calls[c].pc = "created"
  /\ calls' = [calls EXCEPT ![c].pc = "loaded",
                            ![c].decisions = LoadDecisions(DECISIONS_FILE)]
  /\ UNCHANGED <<requests_by_id, presets_data, rules_data, artists_data,
                 DECISIONS_FILE, now, result, agent>>

\* The call appends its decision to its list, rewrites the file with the
\* list, and returns success
RecordWrite(c) ==
  /\ calls[c].pc = "loaded"
  /\ DECISIONS_FILE' = WriteBack(DECISIONS_FILE, calls[c].decisions, calls[c].decision)
  /\ calls' = [calls EXCEPT ![c].pc = "returned",
                            ![c].out = [decision_id |-> calls[c].decision["decision_id"],
                                        recorded_at |-> calls[c].decision["recorded_at"],
                                        success |-> TRUE]]
  /\ UNCHANGED <<requests_by_id, presets_data, rules_data, artists_data,
                 now, result, agent>>

InitRace ==
  /\ requests_by_id = [id \in KnownIds |-> EmptyDict]
  /\ presets_data = EmptyDict
  /\ rules_data = <<>>
  /\ artists_data = <<>>
  /\ DECISIONS_FILE \in RaceFiles
  /\ now = 0
  /\ result = NoResult
  /\ agent = AgentIdle
  /\ calls = NoCalls

NextRace ==
  \E c \in Callers :
    \/ RecordCreate(c)
    \/ RecordLoad(c)
    \/ RecordWrite(c)

SpecRace == InitRace /\ [][NextRace]_vars

\* Both calls have returned success = true
BothReturned ==
  \A c \in Callers : calls[c].pc = "returned" /\ calls[c].out.success

\* The number of entries of the file equal to record r
RECURSIVE Occurrences(_, _)
Occurrences(records, r) ==
  IF records = <<>> THEN 0
  ELSE (IF records[1] = r THEN 1 ELSE 0) + Occurrences(Tail(records), r)

\* C13: with the read and the rewrite of the file as separate steps and no
\* lock, two calls that both return success leave the file with only one new
\* record exactly when both read the file before either rewrote it; then the
\* file holds what they read followed by the record of the call that wrote
\* last, and otherwise it holds both new records
C13_LostUpdateWhenBothReadFirst ==
  BothReturned =>
    LET l1 == calls["call-1"].decisions
        l2 == calls["call-2"].decisions
        held == HeldRecords(DECISIONS_FILE)
    IN  IF l1 = l2
        THEN /\ Len(held) = Len(l1) + 1
             /\ \E c \in Callers : held = Append(l1, calls[c].decision)
        ELSE /\ Len(held) = Min(Len(l1), Len(l2)) + 2
             /\ \E c \in Callers :
                  held = Append(Append(calls[c].decisions, calls[c].decision),
                                calls[CHOOSE d \in Callers : d # c].decision)

\* C13 witness: both calls returned success, their decisions differ, and the
\* file holds the earlier content followed by the decision of call-2 alone
C13_Witness ==
  /\ BothReturned
  /\ calls["call-1"].decision # calls["call-2"].decision
  /\ calls["call-1"].decisions = calls["call-2"].decisions
  /\ HeldRecords(DECISIONS_FILE)
       = Append(calls["call-2"].decisions, calls["call-2"].decision)
  /\ Occurrences(HeldRecords(DECISIONS_FILE), calls["call-1"].decision) = 0

====
